---- MODULE Spec2Model ----
(***************************************************************************)
(* A model of the TFS page manager (src/io/pages.rs), its state block      *)
(* codec (src/io/state_block.rs) and cluster pointers (src/io/cluster.rs). *)
(*                                                                         *)
(* Sectors are sequences of bytes (0..255), 1-indexed here: byte k of the  *)
(* source (0-based) is element k+1.  The sector size is scaled down from   *)
(* the real one; everything that depends on it is derived from SECTOR_SIZE *)
(* exactly as the source derives it.                                       *)
(***************************************************************************)
EXTENDS Integers, Sequences, FiniteSets, TLC

VARIABLES
    manager,    \* Manager { disk, state, committed_state }        (pages.rs:90-100)
    panicked,   \* TRUE once an operation has panicked (slice index out of range)
    security,   \* cfg!(feature = "security")                       (pages.rs:272)
    hist,       \* the operations performed, newest last: [op, arg, ret, queued]
    keep_hist,  \* whether hist keeps every operation or only the newest
    ghost,      \* history of the run: snapshots at the last commit, live clusters
    sb_in,      \* codec run: the StateBlock given to encode
    sb_buf,     \* codec run: the sector produced by encode
    sb_out,     \* codec run: the result of decode
    sb_pc,      \* codec run: "idle" | "start" | "encoded" | "decoded"
    packer      \* sizing run: [alg, len], the length of last_cluster_data

vars == <<manager, panicked, security, hist, keep_hist, ghost, sb_in, sb_buf, sb_out, sb_pc,
          packer>>

(***************************************************************************)
(* Sizes.                                                                  *)
(***************************************************************************)
\* disk::SECTOR_SIZE, scaled down (the smallest size whose metacluster holds
\* the pointers 1..4 at the offsets the head flush computes).
SECTOR_SIZE == 48
\* cluster::POINTER_SIZE
POINTER_SIZE == 8
METACLUSTER_HEADER == 8
METACLUSTER_SIZE == SECTOR_SIZE - METACLUSTER_HEADER
DATA_CLUSTER_HEADER == 2
DATA_CLUSTER_SIZE == SECTOR_SIZE - DATA_CLUSTER_HEADER
\* METACLUSTER_SIZE / cluster::POINTER_SIZE, the length at which a push rotates.
METACLUSTER_CAPACITY == METACLUSTER_SIZE \div POINTER_SIZE

(***************************************************************************)
(* Bytes.                                                                  *)
(***************************************************************************)
Zeros(n) == [i \in 1..n |-> 0]

RECURSIVE ByteOf(_, _)
\* Byte k (0 = least significant) of v.
ByteOf(v, k) == IF k = 0 THEN v % 256 ELSE ByteOf(v \div 256, k - 1)

\* Whether LittleEndian::write of n bytes into &mut buf[off..] stays inside buf.
\* Outside it the slice index (or the write into a too-short slice) panics.
WriteInRange(buf, off, n) == off + n <= Len(buf)

\* LittleEndian::write(&mut buf[off..], v) for an n-byte integer v.
LittleEndianWrite(buf, off, v, n) ==
    [i \in 1..Len(buf) |-> IF i > off /\ i <= off + n THEN ByteOf(v, i - off - 1) ELSE buf[i]]

RECURSIVE LittleEndianValue(_)
LittleEndianValue(bytes) ==
    IF bytes = <<>> THEN 0 ELSE bytes[1] + 256 * LittleEndianValue(Tail(bytes))

\* LittleEndian::read(&buf[off..]) of an n-byte integer.
LittleEndianRead(buf, off, n) == LittleEndianValue(SubSeq(buf, off + 1, off + n))

\* The n little-endian bytes of v.
LittleEndianBytes(v, n) == [i \in 1..n |-> ByteOf(v, i - 1)]

RECURSIVE HashFrom(_, _)
HashFrom(buf, i) == IF i > Len(buf) THEN 0 ELSE i * buf[i] + HashFrom(buf, i + 1)

\* The configured checksum algorithm (an external collaborator): a position
\* weighted byte sum, which every single-byte change alters.
Hash(buf) == HashFrom(buf, 1)

(***************************************************************************)
(* The state block codec (state_block.rs).                                 *)
(***************************************************************************)
CompressionAlgorithms == {"Identity", "Lz4"}

\* `self.compression_algorithm as u16`
CompressionTag(alg) == IF alg = "Identity" THEN 0 ELSE 1

\* A mutant of TryFromTag: the reserved range starts one tag too late.
TryFromTagLateReserved(from) ==
    IF from = 0 THEN [ok |-> TRUE, val |-> "Identity"]
    ELSE IF from = 1 THEN [ok |-> TRUE, val |-> "Lz4"]
    ELSE IF from > 32768 THEN [ok |-> FALSE, err |-> "UnknownCompressionAlgorithm"]
    ELSE [ok |-> FALSE, err |-> "InvalidCompressionAlgorithm"]

\* TryFrom<u16> for CompressionAlgorithm
TryFromTag(from) ==
    IF from = 0 THEN [ok |-> TRUE, val |-> "Identity"]
    ELSE IF from = 1 THEN [ok |-> TRUE, val |-> "Lz4"]
    ELSE IF from >= 32768 THEN [ok |-> FALSE, err |-> "UnknownCompressionAlgorithm"]
    ELSE [ok |-> FALSE, err |-> "InvalidCompressionAlgorithm"]

\* A mutant of StateBlockEncode: the superpage pointer written over the
\* freelist head pointer's field.
StateBlockEncodeOverlapping(sb) ==
    LET b0 == Zeros(SECTOR_SIZE)
        b1 == LittleEndianWrite(b0, 8, CompressionTag(sb.compression_algorithm), 2)
        b2 == LittleEndianWrite(b1, 16, sb.freelist_head, 8)
        b3 == LittleEndianWrite(b2, 16, sb.superpage, 8)
        cksum == Hash(SubSeq(b3, 9, Len(b3)))
    IN  LittleEndianWrite(b3, 0, cksum, 8)

\* StateBlock::encode
StateBlockEncode(sb) ==
    LET b0 == Zeros(SECTOR_SIZE)
        b1 == LittleEndianWrite(b0, 8, CompressionTag(sb.compression_algorithm), 2)
        b2 == LittleEndianWrite(b1, 16, sb.freelist_head, 8)
        b3 == LittleEndianWrite(b2, 24, sb.superpage, 8)
        cksum == Hash(SubSeq(b3, 9, Len(b3)))
    IN  LittleEndianWrite(b3, 0, cksum, 8)

\* A mutant of StateBlockDecode: the compression tag is interpreted before the
\* checksum is compared.
StateBlockDecodeTagFirst(buf) ==
    LET expected == SubSeq(buf, 1, 8)
        found == LittleEndianBytes(Hash(SubSeq(buf, 9, Len(buf))), 8)
        alg == TryFromTag(LittleEndianRead(buf, 8, 2))
    IN  IF ~alg.ok
        THEN [ok |-> FALSE, err |-> alg.err]
        ELSE IF expected # found
        THEN [ok |-> FALSE, err |-> "ChecksumMismatch", expected |-> expected, found |-> found]
        ELSE [ok |-> TRUE,
              block |-> [compression_algorithm |-> alg.val,
                         freelist_head |-> LittleEndianRead(buf, 16, 8),
                         superpage |-> LittleEndianRead(buf, 24, 8)]]

\* StateBlock::decode.  The two checksums are compared as their 8 little-endian
\* bytes: a stored checksum is any 64-bit value.
StateBlockDecode(buf) ==
    LET expected == SubSeq(buf, 1, 8)
        found == LittleEndianBytes(Hash(SubSeq(buf, 9, Len(buf))), 8)
        alg == TryFromTag(LittleEndianRead(buf, 8, 2))
    IN  IF expected # found
        THEN [ok |-> FALSE, err |-> "ChecksumMismatch", expected |-> expected, found |-> found]
        ELSE IF ~alg.ok
        THEN [ok |-> FALSE, err |-> alg.err]
        ELSE [ok |-> TRUE,
              block |-> [compression_algorithm |-> alg.val,
                         freelist_head |-> LittleEndianRead(buf, 16, 8),
                         superpage |-> LittleEndianRead(buf, 24, 8)]]

(***************************************************************************)
(* The caching disk (Cache<header::Driver<D>>): a write pipeline over a    *)
(* sector device.  Its code is not part of the sources at hand; it is      *)
(* modelled from its interface: queue, read, commit, revert.               *)
(***************************************************************************)
\* Cache::queue: append a sector write to the pipeline.
CacheQueue(disk, cluster, sector) ==
    [disk EXCEPT !.pipeline = Append(@, [cluster |-> cluster, sector |-> sector])]

RECURSIVE ApplyWrites(_, _)
\* The pipeline replayed on the device in enqueue order.
ApplyWrites(device, pipeline) ==
    IF pipeline = <<>> THEN device
    ELSE ApplyWrites([device EXCEPT ![Head(pipeline).cluster] = Head(pipeline).sector],
                     Tail(pipeline))

\* Cache::commit: promote the pipeline to the device.
CacheCommit(disk) == [pipeline |-> <<>>, device |-> ApplyWrites(disk.device, disk.pipeline)]

\* Cache::revert: discard the pipeline.
CacheRevert(disk) == [disk EXCEPT !.pipeline = <<>>]

\* Cache::read: the newest image of a cluster, pipeline over device.
CacheRead(disk, cluster) == ApplyWrites(disk.device, disk.pipeline)[cluster]

\* `self.state.queue(..)` of the fitting branch of queue_alloc.  State has no
\* such method in the sources; the write is taken to enter the same pipeline.
StateQueue(disk, cluster, sector) == CacheQueue(disk, cluster, sector)

RECURSIVE DecodePointers(_, _)
DecodePointers(sector, k) ==
    IF k >= METACLUSTER_CAPACITY
       \/ METACLUSTER_HEADER + POINTER_SIZE * (k + 1) > Len(sector) THEN <<>>
    ELSE LET p == LittleEndianRead(sector, METACLUSTER_HEADER + POINTER_SIZE * k, POINTER_SIZE)
         IN  IF p = 0 THEN <<>> ELSE <<p>> \o DecodePointers(sector, k + 1)

\* Whether the checksum a metacluster image stores in bytes 0..8 is the
\* checksum of its bytes 8.. (both as their 8 little-endian bytes).
MetaclusterVerifies(sector) ==
    /\ Len(sector) >= METACLUSTER_HEADER
    /\ SubSeq(sector, 1, METACLUSTER_HEADER)
           = LittleEndianBytes(Hash(SubSeq(sector, METACLUSTER_HEADER + 1, Len(sector))), 8)

\* State::load_freelist (not part of the sources at hand): the metacluster
\* decode of the on-disk format.  The checksum prefix is verified; then the
\* pointers packed consecutively from byte 8 on are read, up to the first null
\* slot.  On a mismatch nothing is loaded: the call site (pages.rs:250) drops
\* the result of load_freelist, so the freelist stays as the pop left it,
\* empty, and the pop goes on.
LoadFreelist(sector) ==
    IF MetaclusterVerifies(sector) THEN DecodePointers(sector, 0) ELSE <<>>

RECURSIVE PackPointers(_, _, _)
PackPointers(buf, free, k) ==
    IF k > Len(free) THEN buf
    ELSE PackPointers(LittleEndianWrite(buf, METACLUSTER_HEADER + POINTER_SIZE * (k - 1),
                                        free[k], POINTER_SIZE), free, k + 1)

\* The metacluster layout of the on-disk format: checksum of bytes 8.. in
\* bytes 0..8, then the pointers packed consecutively, unused slots zero.
\* Used for the images a formatted device holds before the manager runs.
MetaclusterImage(free) ==
    LET b == PackPointers(Zeros(SECTOR_SIZE), free, 1)
    IN  LittleEndianWrite(b, 0, Hash(SubSeq(b, METACLUSTER_HEADER + 1, Len(b))), 8)

(***************************************************************************)
(* The page manager (pages.rs).  An operation maps a Manager record m to   *)
(* [m, ret, panic, path]: the manager afterwards, the returned Result, and *)
(* whether it panicked, and the branch it took.                            *)
(***************************************************************************)
\* `self.header.state_block_address`: the sector of the state block.
StateBlockAddress == 0
\* queue_alloc has no tail expression: no pointer is returned on success.
NoValue == 0

Ok(v) == [ok |-> TRUE, val |-> v, err |-> ""]
Err(e) == [ok |-> FALSE, val |-> NoValue, err |-> e]
Outcome(m, ret, path) == [m |-> m, ret |-> ret, panic |-> FALSE, path |-> path]
Panic(m, path) == [m |-> m, ret |-> Err("panic"), panic |-> TRUE, path |-> path]

\* Manager::compress.  Lz4 (an external codec) as the literal-only LZ4 block.
Compress(alg, source) ==
    IF alg = "Identity" THEN source
    ELSE LET n == Len(source)
             token == IF n < 15 THEN n * 16 ELSE 240
             extra == IF n < 15 THEN <<>>
                      ELSE [i \in 1..((n - 15) \div 255 + 1) |->
                               IF i <= (n - 15) \div 255 THEN 255 ELSE (n - 15) % 255]
         IN  <<token>> \o extra \o source

\* The length of Compress(alg, source) for a source of n bytes.
CompressedLength(alg, n) ==
    IF alg = "Identity" THEN n
    ELSE n + 1 + (IF n < 15 THEN 0 ELSE (n - 15) \div 255 + 1)

\* Manager::checksum
Checksum(buf) == Hash(buf)

\* A mutant of queue_state_block_flush: the state block written through to the
\* device instead of the pipeline.
QueueStateBlockFlushWriteThrough(m) ==
    [m EXCEPT !.disk.device[StateBlockAddress] = StateBlockEncode(m.state.state_block)]

\* Manager::queue_state_block_flush
queue_state_block_flush(m) ==
    [m EXCEPT !.disk = CacheQueue(@, StateBlockAddress, StateBlockEncode(m.state.state_block))]

\* The byte offset the head flush writes pointer i at: the pointer's own value
\* is the slot index (`for (n, i) in ..enumerate()` indexes with i, not n).
SlotOffset(i) == POINTER_SIZE * i + METACLUSTER_HEADER

RECURSIVE WritePointers(_, _, _)
WritePointers(buf, free, k) ==
    IF k > Len(free) THEN buf
    ELSE WritePointers(LittleEndianWrite(buf, SlotOffset(free[k]), free[k], POINTER_SIZE),
                       free, k + 1)

\* Whether the head flush panics: some write falls outside the sector buffer.
HeadFlushPanics(free) ==
    \E k \in 1..Len(free) : ~WriteInRange(Zeros(SECTOR_SIZE), SlotOffset(free[k]), POINTER_SIZE)

\* The sector the head flush builds: the pointers, then the checksum of
\* buf[2..] written over bytes 0..8.
FreelistHeadBuffer(free) ==
    LET b == WritePointers(Zeros(SECTOR_SIZE), free, 1)
    IN  LittleEndianWrite(b, 0, Checksum(SubSeq(b, 3, Len(b))), 8)

\* Manager::queue_freelist_head_flush
queue_freelist_head_flush(m) ==
    IF HeadFlushPanics(m.state.freelist)
    THEN [m |-> m, panic |-> TRUE]
    ELSE [m |-> [m EXCEPT !.disk = CacheQueue(@, m.state.state_block.freelist_head,
                                             FreelistHeadBuffer(m.state.freelist))],
          panic |-> FALSE]

\* A mutant of queue_freelist_pop: the top pointer is returned but stays in
\* the freelist (`last` instead of `pop`).
QueueFreelistPopKeepingPointer(m, read_ok) ==
    IF m.state.freelist = <<>>
    THEN Outcome(m, Err("OutOfClusters"), "empty")
    ELSE LET free == m.state.freelist
             cluster == free[Len(free)]
             f == queue_freelist_head_flush(m)
         IN  IF f.panic THEN Panic(f.m, "plain")
             ELSE Outcome(f.m, Ok(cluster), "plain")

\* Manager::queue_freelist_pop.  read_ok: whether the disk read succeeds.
queue_freelist_pop(m, read_ok) ==
    IF m.state.freelist = <<>>
    THEN Outcome(m, Err("OutOfClusters"), "empty")
    ELSE LET free == m.state.freelist
             cluster == free[Len(free)]
             m1 == [m EXCEPT !.state.freelist = SubSeq(free, 1, Len(free) - 1)]
         IN  IF m1.state.freelist = <<>>
             THEN \* mem::swap: the popped pointer becomes the head, the old head is returned.
                  LET old == m1.state.state_block.freelist_head
                      m2 == [m1 EXCEPT !.state.state_block.freelist_head = cluster]
                  IN  IF ~read_ok
                      THEN Outcome(m2, Err("Disk"), "chain")
                      ELSE LET m3 == [m2 EXCEPT !.state.freelist =
                                        LoadFreelist(CacheRead(m2.disk, cluster))]
                           IN  Outcome(queue_state_block_flush(m3), Ok(old), "chain")
             ELSE LET f == queue_freelist_head_flush(m1)
                  IN  IF f.panic THEN Panic(f.m, "plain")
                      ELSE Outcome(f.m, Ok(cluster), "plain")

\* A mutant of queue_freelist_push: the purge of the cluster is queued after
\* the flushes instead of before them.
QueueFreelistPushPurgeLast(m, cluster, sec) ==
    LET purge(r) == IF sec /\ ~r.panic
                    THEN [r EXCEPT !.m.disk = CacheQueue(@, cluster, Zeros(SECTOR_SIZE))]
                    ELSE r
    IN  IF Len(m.state.freelist) = METACLUSTER_SIZE \div POINTER_SIZE
        THEN LET m1 == [m EXCEPT !.state.freelist = <<m.state.state_block.freelist_head>>,
                                 !.state.state_block.freelist_head = cluster]
                 f == queue_freelist_head_flush(m1)
             IN  IF f.panic THEN Panic(f.m, "rotate")
                 ELSE purge(Outcome(queue_state_block_flush(f.m), Ok(NoValue), "rotate"))
        ELSE LET m1 == [m EXCEPT !.state.freelist = Append(@, cluster)]
                 f == queue_freelist_head_flush(m1)
             IN  IF f.panic THEN Panic(f.m, "append")
                 ELSE purge(Outcome(f.m, Ok(NoValue), "append"))

\* A mutant of queue_freelist_push: the head rotates one push too late.
QueueFreelistPushLateRotation(m, cluster, sec) ==
    LET m0 == IF sec THEN [m EXCEPT !.disk = CacheQueue(@, cluster, Zeros(SECTOR_SIZE))]
              ELSE m
    IN  IF Len(m0.state.freelist) = METACLUSTER_SIZE \div POINTER_SIZE + 1
        THEN LET m1 == [m0 EXCEPT !.state.freelist = <<m0.state.state_block.freelist_head>>,
                                  !.state.state_block.freelist_head = cluster]
                 f == queue_freelist_head_flush(m1)
             IN  IF f.panic THEN Panic(f.m, "rotate")
                 ELSE Outcome(queue_state_block_flush(f.m), Ok(NoValue), "rotate")
        ELSE LET m1 == [m0 EXCEPT !.state.freelist = Append(@, cluster)]
                 f == queue_freelist_head_flush(m1)
             IN  IF f.panic THEN Panic(f.m, "append")
                 ELSE Outcome(f.m, Ok(NoValue), "append")

\* Manager::queue_freelist_push.  sec: the security feature.
queue_freelist_push(m, cluster, sec) ==
    LET m0 == IF sec THEN [m EXCEPT !.disk = CacheQueue(@, cluster, Zeros(SECTOR_SIZE))]
              ELSE m
    IN  IF Len(m0.state.freelist) = METACLUSTER_SIZE \div POINTER_SIZE
        THEN LET m1 == [m0 EXCEPT !.state.freelist = <<m0.state.state_block.freelist_head>>,
                                  !.state.state_block.freelist_head = cluster]
                 f == queue_freelist_head_flush(m1)
             IN  IF f.panic THEN Panic(f.m, "rotate")
                 ELSE Outcome(queue_state_block_flush(f.m), Ok(NoValue), "rotate")
        ELSE LET m1 == [m0 EXCEPT !.state.freelist = Append(@, cluster)]
                 f == queue_freelist_head_flush(m1)
             IN  IF f.panic THEN Panic(f.m, "append")
                 ELSE Outcome(f.m, Ok(NoValue), "append")

\* The 2-byte header of a data cluster: the checksum as u16, little-endian,
\* then `cluster[1] <<= 1` and, when compressed, `cluster[1] |= 1`.
WithDataHeader(cluster, compressed) ==
    LET c1 == LittleEndianWrite(cluster, 0,
                  Checksum(SubSeq(cluster, DATA_CLUSTER_HEADER + 1, Len(cluster))) % 65536, 2)
    IN  [c1 EXCEPT ![2] = ((@ * 2) % 256) + (IF compressed THEN 1 ELSE 0)]

\* A mutant of queue_alloc: a page that does not fit is still appended to the
\* data kept for the cluster (last_cluster_data is not reset to the page).
QueueAllocKeepingData(m, buf, read_ok) ==
    LET data == m.state.last_cluster_data \o buf
        m1 == [m EXCEPT !.state.last_cluster_data = data]
        cluster == Zeros(DATA_CLUSTER_HEADER) \o Compress(m.state.state_block.compression_algorithm, data)
    IN  IF Len(cluster) <= SECTOR_SIZE
        THEN LET padded == cluster \o Zeros(SECTOR_SIZE - Len(cluster))
             IN  Outcome([m1 EXCEPT !.disk = StateQueue(@, m1.state.last_cluster,
                                                        WithDataHeader(padded, TRUE))],
                         Ok(NoValue), "fit")
        ELSE LET raw == WithDataHeader(Zeros(DATA_CLUSTER_HEADER) \o buf, FALSE)
                 p == queue_freelist_pop(m1, read_ok)
             IN  IF p.panic THEN Panic(p.m, "nofit")
                 ELSE IF ~p.ret.ok THEN Outcome(p.m, p.ret, "nofit")
                 ELSE LET m3 == [p.m EXCEPT !.state.last_cluster = p.ret.val]
                      IN  Outcome([m3 EXCEPT !.disk = CacheQueue(@, m3.state.last_cluster, raw)],
                                  Ok(NoValue), "nofit")

\* Manager::queue_alloc
queue_alloc(m, buf, read_ok) ==
    LET data == m.state.last_cluster_data \o buf
        m1 == [m EXCEPT !.state.last_cluster_data = data]
        cluster == Zeros(DATA_CLUSTER_HEADER) \o Compress(m.state.state_block.compression_algorithm, data)
    IN  IF Len(cluster) <= SECTOR_SIZE
        THEN LET padded == cluster \o Zeros(SECTOR_SIZE - Len(cluster))
             IN  Outcome([m1 EXCEPT !.disk = StateQueue(@, m1.state.last_cluster,
                                                        WithDataHeader(padded, TRUE))],
                         Ok(NoValue), "fit")
        ELSE LET raw == WithDataHeader(Zeros(DATA_CLUSTER_HEADER) \o buf, FALSE)
                 m2 == [m1 EXCEPT !.state.last_cluster_data = buf]
                 p == queue_freelist_pop(m2, read_ok)
             IN  IF p.panic THEN Panic(p.m, "nofit")
                 ELSE IF ~p.ret.ok THEN Outcome(p.m, p.ret, "nofit")
                 ELSE LET m3 == [p.m EXCEPT !.state.last_cluster = p.ret.val]
                      IN  Outcome([m3 EXCEPT !.disk = CacheQueue(@, m3.state.last_cluster, raw)],
                                  Ok(NoValue), "nofit")

\* A mutant of commit: the pipeline is committed, the snapshot is not taken.
CommitWithoutSnapshot(m) == [m EXCEPT !.disk = CacheCommit(@)]

\* Manager::commit
commit(m) == [m EXCEPT !.committed_state = m.state, !.disk = CacheCommit(@)]

\* A mutant of revert: the state is restored except for last_cluster_data.
RevertKeepingData(m) ==
    [m EXCEPT !.state = [m.committed_state EXCEPT !.last_cluster_data = m.state.last_cluster_data],
              !.disk = CacheRevert(@)]

\* A mutant of revert: the state and the snapshot are exchanged.
RevertSwappingSnapshot(m) ==
    [m EXCEPT !.state = m.committed_state, !.committed_state = m.state,
              !.disk = CacheRevert(@)]

\* Manager::revert
revert(m) == [m EXCEPT !.state = m.committed_state, !.disk = CacheRevert(@)]

(***************************************************************************)
(* Bounds and inputs.                                                      *)
(***************************************************************************)
\* The device holds the state block (address 0) and clusters 1..MaxCluster.
MaxCluster == 9
\* Operations per run when the whole history is kept.
MaxOps == 6
\* Operations per run when only the newest operation is kept.
MaxSteps == 5
\* Queued writes the pipeline may hold before an operation starts.
MaxPipeline == 4

Clusters == 1..MaxCluster
Addresses == 0..MaxCluster

\* "Pages are virtual data units of size 4088 bytes": the sector less 8.
PAGE_SIZE == SECTOR_SIZE - 8

\* Page k: a half page (k = 1: two of them share a cluster under the identity
\* compression, three do not) or a whole page (k = 2).  A page is zero but
\* for its byte 6, which holds a small number (6 in the half page, 4 in the
\* whole page): user data, at the offset that byte 8 of the cluster holding
\* the page takes it from.
Page(k) ==
    [i \in 1..(IF k = 2 THEN PAGE_SIZE ELSE PAGE_SIZE \div 2 - 1) |->
        IF i = 7 THEN (IF k = 2 THEN 4 ELSE 6) ELSE 0]
PageIds == 1..2

\* The sector queue_alloc leaves in a cluster that holds `data`, packed under
\* the algorithm alg.
PackedImage(alg, data) ==
    LET c == Zeros(DATA_CLUSTER_HEADER) \o Compress(alg, data)
    IN  WithDataHeader(c \o Zeros(SECTOR_SIZE - Len(c)), TRUE)

(***************************************************************************)
(* Initial images.  A layout names the head metacluster, the pointers it   *)
(* holds (the first one, if any, links to the next metacluster), the other *)
(* metaclusters of the chain, the cluster receiving pages and the page in  *)
(* it.  Every other cluster is zero-filled and not owned by the freelist.  *)
(***************************************************************************)
\* A head [1, 2] whose link 1 is the last metacluster of the chain.
LayoutLinked ==
    [name |-> "linked", alg |-> "Identity", head |-> 6, free |-> <<1, 2>>, metas |-> <<[at |-> 1, free |-> <<>>]>>,
     last |-> 3, superpage |-> 8]
\* The last metacluster of a chain, holding nothing.
LayoutEmpty ==
    [name |-> "empty", alg |-> "Identity", head |-> 6, free |-> <<>>, metas |-> <<>>, last |-> 4, superpage |-> 8]
\* A full head: the next push rotates.
LayoutFull ==
    [name |-> "full", alg |-> "Identity", head |-> 1, free |-> [k \in 1..METACLUSTER_CAPACITY |-> k + 1],
     metas |-> <<[at |-> 2, free |-> <<>>]>>, last |-> MaxCluster, superpage |-> MaxCluster - 1]
\* Scenario S3: the head metacluster holds exactly [3, 4, 5]; 3 is a free
\* cluster, not a metacluster.
LayoutS3 ==
    [name |-> "S3", alg |-> "Identity", head |-> 6, free |-> <<3, 4, 5>>, metas |-> <<>>, last |-> 1, superpage |-> 8]
\* Scenario S4: the head holds only a chain link to 9, which holds [7].
LayoutS4 ==
    [name |-> "S4", alg |-> "Identity", head |-> 6, free |-> <<9>>, metas |-> <<[at |-> 9, free |-> <<7>>]>>,
     last |-> 1, superpage |-> 8]

\* Layout L configured with the compression algorithm alg.
WithAlgorithm(L, alg) == [L EXCEPT !.alg = alg]

MetaAt(L) == {L.metas[i].at : i \in 1..Len(L.metas)}
MetaFree(L, c) == (CHOOSE i \in 1..Len(L.metas) : L.metas[i].at = c)
Range(seq) == {seq[i] : i \in 1..Len(seq)}

\* The clusters the freelist owns in layout L: the chain and what it holds.
LayoutOwned(L) ==
    {L.head} \cup Range(L.free) \cup MetaAt(L)
    \cup UNION {Range(L.metas[i].free) : i \in 1..Len(L.metas)}

LayoutState(L) ==
    [state_block |-> [compression_algorithm |-> L.alg, freelist_head |-> L.head,
                      superpage |-> L.superpage],
     freelist |-> L.free,
     last_cluster |-> L.last,
     last_cluster_data |-> Page(1)]

LayoutDevice(L) ==
    [a \in Addresses |->
        IF a = StateBlockAddress THEN StateBlockEncode(LayoutState(L).state_block)
        ELSE IF a = L.head THEN MetaclusterImage(L.free)
        ELSE IF a \in MetaAt(L) THEN MetaclusterImage(L.metas[MetaFree(L, a)].free)
        ELSE IF a = L.last THEN PackedImage(L.alg, Page(1))
        ELSE Zeros(SECTOR_SIZE)]

\* The manager as constructed over a device formatted as layout L.
LayoutManager(L) ==
    [disk |-> [pipeline |-> <<>>, device |-> LayoutDevice(L)],
     state |-> LayoutState(L),
     committed_state |-> LayoutState(L)]

LayoutGhost(L) ==
    [layout |-> L.name,
     init_state |-> LayoutState(L),
     formatted |-> {L.head} \cup MetaAt(L),
     snap_state |-> LayoutState(L),
     snap_device |-> LayoutDevice(L),
     prev_device |-> LayoutDevice(L),
     snap_owned |-> LayoutOwned(L),
     snap_live |-> {L.last},
     owned |-> LayoutOwned(L),
     live |-> {L.last},
     reserved |-> {L.superpage},
     since |-> {},
     undone |-> {},
     log |-> <<>>,
     committed_log |-> <<>>,
     commits |-> 0,
     realloc |-> FALSE,
     steps |-> 0]

PackerIdle == [alg |-> "Identity", len |-> 0]

CodecIdle ==
    /\ sb_pc = "idle"
    /\ sb_in = [compression_algorithm |-> "Identity", freelist_head |-> 1, superpage |-> 1]
    /\ sb_buf = <<>>
    /\ sb_out = [ok |-> FALSE, err |-> ""]

InitLayout(L, keep) ==
    /\ manager = LayoutManager(L)
    /\ panicked = FALSE
    /\ security \in (IF keep THEN BOOLEAN ELSE {FALSE})
    /\ hist = <<>>
    /\ keep_hist = keep
    /\ ghost = LayoutGhost(L)
    /\ CodecIdle
    /\ packer = PackerIdle

Init == \E L \in {LayoutLinked, LayoutEmpty, LayoutFull} : InitLayout(L, FALSE)

InitFreelist ==
    \E L \in {LayoutLinked, LayoutEmpty, LayoutFull, LayoutS3, LayoutS4} : InitLayout(L, TRUE)

(***************************************************************************)
(* Actions: one per operation of the manager.                              *)
(***************************************************************************)
CanStep ==
    /\ ~panicked
    /\ sb_pc = "idle"
    /\ ghost.steps < (IF keep_hist THEN MaxOps ELSE MaxSteps)
    /\ Len(manager.disk.pipeline) <= MaxPipeline

\* The writes an operation added to the pipeline.
Queued(m) == SubSeq(m.disk.pipeline, Len(manager.disk.pipeline) + 1, Len(m.disk.pipeline))

Record(e) == IF keep_hist THEN Append(hist, e) ELSE <<e>>

Entry(op, arg, r) ==
    [op |-> op, arg |-> arg, ret |-> r.ret, path |-> r.path, queued |-> Queued(r.m),
     head |-> manager.state.state_block.freelist_head]

Tag(op, r) == IF r.panic THEN op \o "_panic" ELSE IF r.ret.ok THEN op \o "_" \o r.path ELSE op \o "_fail"

Alloc(k, read_ok) ==
    /\ CanStep
    /\ LET r == queue_alloc(manager, Page(k), read_ok)
       IN  /\ manager' = r.m
           /\ panicked' = r.panic
           /\ hist' = Record(Entry("alloc", k, r))
           /\ ghost' = [ghost EXCEPT
                  !.live = IF r.ret.ok THEN @ \cup {r.m.state.last_cluster} ELSE @,
                  !.owned = IF r.ret.ok THEN @ \ {r.m.state.last_cluster} ELSE @,
                  !.since = @ \cup {Tag("alloc", r)},
                  !.realloc = @ \/ (r.ret.ok /\ r.path = "nofit"
                                     /\ r.m.state.last_cluster \in ghost.live),
                  !.log = @ \o Queued(r.m),
                  !.steps = @ + 1]
    /\ UNCHANGED <<security, keep_hist, sb_in, sb_buf, sb_out, sb_pc, packer>>

\* The caller frees a cluster that holds no live page, that the freelist does
\* not own already and that is not the cluster still receiving pages.
Push(c) ==
    /\ CanStep
    /\ c \notin ghost.owned \cup ghost.live \cup ghost.reserved
    /\ c # manager.state.last_cluster
    /\ LET r == queue_freelist_push(manager, c, security)
       IN  /\ manager' = r.m
           /\ panicked' = r.panic
           /\ hist' = Record(Entry("push", c, r))
           /\ ghost' = [ghost EXCEPT
                  !.owned = @ \cup {c},
                  !.since = @ \cup {Tag("push", r)},
                  !.log = @ \o Queued(r.m),
                  !.steps = @ + 1]
    /\ UNCHANGED <<security, keep_hist, sb_in, sb_buf, sb_out, sb_pc, packer>>

Pop(read_ok) ==
    /\ CanStep
    /\ LET r == queue_freelist_pop(manager, read_ok)
       IN  /\ manager' = r.m
           /\ panicked' = r.panic
           /\ hist' = Record(Entry("pop", 0, r))
           /\ ghost' = [ghost EXCEPT
                  !.owned = IF r.ret.ok THEN @ \ {r.ret.val} ELSE @,
                  !.since = @ \cup {Tag("pop", r)},
                  !.log = @ \o Queued(r.m),
                  !.steps = @ + 1]
    /\ UNCHANGED <<security, keep_hist, sb_in, sb_buf, sb_out, sb_pc, packer>>

Commit ==
    /\ CanStep
    /\ manager' = commit(manager)
    /\ hist' = Record([op |-> "commit", arg |-> 0, ret |-> Ok(NoValue), path |-> "", queued |-> <<>>,
                      head |-> manager.state.state_block.freelist_head])
    /\ ghost' = [ghost EXCEPT
           !.snap_state = manager.state,
           !.snap_device = manager'.disk.device,
           !.prev_device = manager.disk.device,
           !.snap_owned = ghost.owned,
           !.snap_live = ghost.live,
           !.since = {},
           !.undone = {},
           !.committed_log = ghost.log,
           !.log = <<>>,
           !.commits = 1,
           !.steps = @ + 1]
    /\ UNCHANGED <<panicked, security, keep_hist, sb_in, sb_buf, sb_out, sb_pc, packer>>

Revert ==
    /\ CanStep
    /\ manager' = revert(manager)
    /\ hist' = Record([op |-> "revert", arg |-> 0, ret |-> Ok(NoValue), path |-> "", queued |-> <<>>,
                      head |-> manager.state.state_block.freelist_head])
    /\ ghost' = [ghost EXCEPT
           !.owned = ghost.snap_owned,
           !.live = ghost.snap_live,
           !.undone = ghost.since,
           !.since = {},
           !.log = <<>>,
           !.steps = @ + 1]
    /\ UNCHANGED <<panicked, security, keep_hist, sb_in, sb_buf, sb_out, sb_pc, packer>>

\* The caller frees the last live page of cluster c (the manager is not told:
\* queue_free is the caller's side of queue_freelist_push).
FreePages(c) ==
    /\ CanStep
    /\ c \in ghost.live
    /\ ghost' = [ghost EXCEPT !.live = @ \ {c}, !.steps = @ + 1]
    /\ UNCHANGED <<manager, panicked, security, hist, keep_hist, sb_in, sb_buf, sb_out, sb_pc, packer>>

Next ==
    \/ \E k \in PageIds, read_ok \in BOOLEAN : Alloc(k, read_ok)
    \/ \E c \in Clusters : Push(c)
    \/ \E read_ok \in BOOLEAN : Pop(read_ok)
    \/ Commit
    \/ Revert
    \/ \E c \in Clusters : FreePages(c)

Spec == Init /\ [][Next]_vars

NextFreelist ==
    \/ \E c \in Clusters : Push(c)
    \/ \E read_ok \in BOOLEAN : Pop(read_ok)

SpecFreelist == InitFreelist /\ [][NextFreelist]_vars

\* The cluster packer under either compression algorithm: allocations, commits
\* and reverts.
InitPacker ==
    \E L \in {LayoutLinked, LayoutEmpty, LayoutS3, LayoutS4}, alg \in CompressionAlgorithms :
        InitLayout(WithAlgorithm(L, alg), FALSE)

NextPacker ==
    \/ \E k \in PageIds, read_ok \in BOOLEAN : Alloc(k, read_ok)
    \/ Commit
    \/ Revert

SpecPacker == InitPacker /\ [][NextPacker]_vars

(***************************************************************************)
(* The sizing run: queue_alloc at the sizes of the sources, 4088-byte pages *)
(* in sectors 8 bytes larger, followed on the length of last_cluster_data   *)
(* alone.  Which branch queue_alloc takes, and the data it keeps, depend on *)
(* lengths only; the content of the pages is left out.                      *)
(***************************************************************************)
\* "Pages are virtual data units of size 4088 bytes."
PAGE_BYTES == 4088
DISK_SECTOR_SIZE == PAGE_BYTES + 8
\* Page lengths: the whole page, the half page of the packing scenario, and
\* shorter ones.
PageLengths == {1, 16, 255, PAGE_BYTES \div 2 - 1, PAGE_BYTES}

InitSizes ==
    /\ manager = LayoutManager(LayoutEmpty)
    /\ panicked = FALSE
    /\ security = FALSE
    /\ hist = <<>>
    /\ keep_hist = FALSE
    /\ ghost = LayoutGhost(LayoutEmpty)
    /\ CodecIdle
    /\ packer \in [alg : CompressionAlgorithms, len : {0}]

\* queue_alloc of a page of n bytes, on lengths: the page is appended and the
\* whole compressed; if that and the header exceed the sector the data kept
\* is reset to the page, whether the pop that follows succeeds or fails.
SizeAlloc(n) ==
    /\ LET data == packer.len + n
           cluster == DATA_CLUSTER_HEADER + CompressedLength(packer.alg, data)
       IN  packer' = [packer EXCEPT !.len = IF cluster <= DISK_SECTOR_SIZE THEN data ELSE n]
    /\ UNCHANGED <<manager, panicked, security, hist, keep_hist, ghost, sb_in, sb_buf, sb_out, sb_pc>>

NextSizes == \E n \in PageLengths : SizeAlloc(n)

SpecSizes == InitSizes /\ [][NextSizes]_vars

(***************************************************************************)
(* The codec run: encode a well-formed state block, then decode the sector.*)
(***************************************************************************)
CodecPointers == {1, 2, 29, 52, 200, 255, 256, 2000, 65535, 65536, 16777216, 2147483647}

InitCodec ==
    /\ manager = LayoutManager(LayoutEmpty)
    /\ panicked = FALSE
    /\ security = FALSE
    /\ hist = <<>>
    /\ keep_hist = FALSE
    /\ ghost = LayoutGhost(LayoutEmpty)
    /\ sb_pc = "start"
    /\ sb_in \in [compression_algorithm : CompressionAlgorithms,
                  freelist_head : CodecPointers, superpage : CodecPointers]
    /\ sb_buf = <<>>
    /\ sb_out = [ok |-> FALSE, err |-> ""]
    /\ packer = PackerIdle

Encode ==
    /\ sb_pc = "start"
    /\ sb_buf' = StateBlockEncode(sb_in)
    /\ sb_pc' = "encoded"
    /\ UNCHANGED <<manager, panicked, security, hist, keep_hist, ghost, sb_in, sb_out, packer>>

\* decode of the sector at hand: as encoded, with one byte changed, or with
\* another tag.
Decode ==
    /\ sb_pc \in {"encoded", "corrupted", "retagged"}
    /\ sb_out' = StateBlockDecode(sb_buf)
    /\ sb_pc' = (IF sb_pc = "encoded" THEN "decoded"
                 ELSE IF sb_pc = "corrupted" THEN "checked" ELSE "classified")
    /\ UNCHANGED <<manager, panicked, security, hist, keep_hist, ghost, sb_in, sb_buf, packer>>

NextCodec == Encode \/ Decode

SpecCodec == InitCodec /\ [][NextCodec]_vars

(***************************************************************************)
(* The codec run on a sector that is not what encode produced: one byte    *)
(* changed and the checksum left alone (tests::mismatching_checksum), or   *)
(* another tag written and the checksum recomputed (tests::manual_mutation,*)
(* tests::unknown_invalid_options).                                        *)
(***************************************************************************)
TamperPointers == {1, 52, 2000, 65536}
\* The values a byte is changed to.
CorruptValues == {0, 1, 20, 128, 255}
\* The tags written: the known ones and both sides of every boundary.
TamperTags == {0, 1, 2, 255, 256, 16384, 32767, 32768, 32769, 65280, 65535}

InitTamper ==
    /\ manager = LayoutManager(LayoutEmpty)
    /\ panicked = FALSE
    /\ security = FALSE
    /\ hist = <<>>
    /\ keep_hist = FALSE
    /\ ghost = LayoutGhost(LayoutEmpty)
    /\ sb_pc = "start"
    /\ sb_in \in [compression_algorithm : CompressionAlgorithms,
                  freelist_head : TamperPointers, superpage : TamperPointers]
    /\ sb_buf = <<>>
    /\ sb_out = [ok |-> FALSE, err |-> ""]
    /\ packer = PackerIdle

\* `sector[pos] = val` without recomputing the checksum.
Corrupt(pos, val) ==
    /\ sb_pc = "encoded"
    /\ sb_buf[pos + 1] # val
    /\ sb_buf' = [sb_buf EXCEPT ![pos + 1] = val]
    /\ sb_pc' = "corrupted"
    /\ UNCHANGED <<manager, panicked, security, hist, keep_hist, ghost, sb_in, sb_out, packer>>

\* The tag bytes 8..10 set to t and the checksum of bytes 8.. written again.
Retag(t) ==
    /\ sb_pc = "encoded"
    /\ LET b == LittleEndianWrite(sb_buf, 8, t, 2)
       IN  sb_buf' = LittleEndianWrite(b, 0, Hash(SubSeq(b, 9, Len(b))), 8)
    /\ sb_pc' = "retagged"
    /\ UNCHANGED <<manager, panicked, security, hist, keep_hist, ghost, sb_in, sb_out, packer>>

NextTamper ==
    \/ Encode
    \/ \E pos \in 0..(SECTOR_SIZE - 1), val \in CorruptValues : Corrupt(pos, val)
    \/ \E t \in TamperTags : Retag(t)
    \/ Decode

SpecTamper == InitTamper /\ [][NextTamper]_vars

(***************************************************************************)
(* Properties.                                                             *)
(***************************************************************************)
Newest == hist[Len(hist)]
NewestIs(op) == hist # <<>> /\ Newest.op = op

\* The manager as it stood right after the last commit (or construction).
ManagerAtCommit ==
    [disk |-> [pipeline |-> <<>>, device |-> ghost.snap_device],
     state |-> ghost.snap_state,
     committed_state |-> ghost.snap_state]

\* The cluster a successful queue_alloc wrote the page to.
AllocTarget(before, r) ==
    LET n == Len(r.m.disk.pipeline)
    IN  IF r.ret.ok /\ n > Len(before.disk.pipeline) THEN r.m.disk.pipeline[n].cluster ELSE NoValue

\* C1 (revert soundness): right after a revert that undoes a sequence of
\* queue_alloc / queue_freelist_push / queue_freelist_pop operations performed
\* since the last commit, the manager's State equals the State at that commit,
\* the pipeline is empty, the device is as the commit left it, and every
\* queue_alloc behaves as it would have right after the commit: same result,
\* same target cluster, same resulting state and queued writes.
C1_RevertSoundness ==
    NewestIs("revert") =>
        /\ manager.state = ghost.snap_state
        /\ manager.disk.pipeline = <<>>
        /\ manager.disk.device = ghost.snap_device
        /\ \A k \in PageIds, read_ok \in BOOLEAN :
              LET now == queue_alloc(manager, Page(k), read_ok)
                  then == queue_alloc(ManagerAtCommit, Page(k), read_ok)
              IN  /\ now.ret = then.ret
                  /\ now.panic = then.panic
                  /\ AllocTarget(manager, now) = AllocTarget(ManagerAtCommit, then)
                  /\ now.m.state = then.m.state
                  /\ now.m.disk = then.m.disk

\* A revert has undone a fitting allocation, a failed allocation and a push.
C1_Witness ==
    /\ NewestIs("revert")
    /\ {"alloc_fit", "alloc_fail", "push_append"} \subseteq ghost.undone

\* C2 (commit-only visibility): the device holds what the last commit left on
\* it, whatever has been queued or reverted since, and a commit puts on the
\* device exactly the writes queued since the previous commit or revert: no
\* reverted write ever reaches it.  Both write paths of queue_alloc are
\* among the queued writes.
C2_CommitOnlyVisibility ==
    /\ manager.disk.device = ghost.snap_device
    /\ ghost.snap_device = ApplyWrites(ghost.prev_device, ghost.committed_log)
    /\ manager.disk.pipeline = ghost.log

\* Writes of a fitting and of a non-fitting allocation are queued and the
\* device does not hold them.
C2_Witness ==
    /\ {"alloc_fit", "alloc_nofit"} \subseteq ghost.since
    /\ Len(manager.disk.pipeline) >= 2
    /\ \A i \in 1..Len(manager.disk.pipeline) :
          manager.disk.device[manager.disk.pipeline[i].cluster] # manager.disk.pipeline[i].sector

\* The last sector the log queued for cluster c.
LastQueued(log, c) ==
    log[CHOOSE i \in 1..Len(log) :
            /\ log[i].cluster = c
            /\ \A j \in (i + 1)..Len(log) : log[j].cluster # c].sector

\* C3 (commit durability): when commit returns, committed_state equals state
\* and the pipeline is empty; from then until the next commit, through any
\* operation and any revert, the device holds for every cluster written
\* before that commit the last sector queued for it; and a revert restores
\* the state of that commit.
C3_CommitDurability ==
    /\ NewestIs("commit") =>
          /\ manager.committed_state = manager.state
          /\ manager.state = ghost.snap_state
          /\ manager.disk.pipeline = <<>>
    /\ \A i \in 1..Len(ghost.committed_log) :
          manager.disk.device[ghost.committed_log[i].cluster]
              = LastQueued(ghost.committed_log, ghost.committed_log[i].cluster)
    /\ manager.committed_state = ghost.snap_state
    /\ NewestIs("revert") => manager.state = ghost.snap_state

\* A commit of two writes to one cluster, then an operation, then a revert.
C3_Witness ==
    /\ NewestIs("revert")
    /\ ghost.commits = 1
    /\ ghost.undone # {}
    /\ \E i, j \in 1..Len(ghost.committed_log) :
          /\ i < j
          /\ ghost.committed_log[i].cluster = ghost.committed_log[j].cluster
          /\ ghost.committed_log[i].sector # ghost.committed_log[j].sector

\* C10 (state block round trip and layout): encode gives a sector that is zero
\* but for the compression tag at bytes 8..10, the freelist head at bytes
\* 16..24, the superpage at bytes 24..32 (little-endian) and the checksum of
\* bytes 8..SECTOR at bytes 0..8; decoding it succeeds and gives the block back.
C10_RoundTripAndLayout ==
    /\ sb_pc \in {"encoded", "decoded"} =>
          /\ Len(sb_buf) = SECTOR_SIZE
          /\ \A i \in 0..(SECTOR_SIZE - 1) :
                sb_buf[i + 1] =
                    IF i < 8 THEN ByteOf(Hash(SubSeq(sb_buf, 9, SECTOR_SIZE)), i)
                    ELSE IF i < 10
                    THEN ByteOf(IF sb_in.compression_algorithm = "Lz4" THEN 1 ELSE 0, i - 8)
                    ELSE IF i >= 16 /\ i < 24 THEN ByteOf(sb_in.freelist_head, i - 16)
                    ELSE IF i >= 24 /\ i < 32 THEN ByteOf(sb_in.superpage, i - 24)
                    ELSE 0
    /\ sb_pc = "decoded" => sb_out.ok /\ sb_out.block = sb_in

\* An LZ4 block with distinct multi-byte pointers has been encoded and decoded.
C10_Witness ==
    /\ sb_pc = "decoded"
    /\ sb_in = [compression_algorithm |-> "Lz4", freelist_head |-> 2000, superpage |-> 65536]

\* The byte positions at which the sector at hand differs from encode's.
Tampered == {i \in 1..SECTOR_SIZE : sb_buf[i] # StateBlockEncode(sb_in)[i]}

\* C11 (checksum detection): decoding an encoded state block in which a single
\* byte was changed, inside the checksum prefix or outside it (the tag bytes
\* included), without recomputing the checksum, returns ChecksumMismatch and
\* no StateBlock: never UnknownCompressionAlgorithm or
\* InvalidCompressionAlgorithm, whatever the tag bytes have become.
C11_ChecksumDetection ==
    sb_pc = "checked" =>
        /\ Cardinality(Tampered) = 1
        /\ ~sb_out.ok
        /\ sb_out.err = "ChecksumMismatch"
        /\ sb_out.expected = SubSeq(sb_buf, 1, 8)
        /\ sb_out.found = LittleEndianBytes(Hash(SubSeq(sb_buf, 9, SECTOR_SIZE)), 8)
        /\ sb_out.expected # sb_out.found

\* A sector whose tag byte 9 was changed to 0xFF (a tag of the reserved
\* range) has been decoded.
C11_Witness ==
    /\ sb_pc = "checked"
    /\ Tampered = {10}
    /\ sb_buf[10] = 255

\* The tag the sector at hand carries in bytes 8..10.
TagAtHand == sb_buf[9] + 256 * sb_buf[10]

\* C12 (compression tag classification): decoding a state block whose checksum
\* verifies yields Identity for tag 0 and LZ4 for tag 1, fails with
\* UnknownCompressionAlgorithm for a tag >= 2^15 and with
\* InvalidCompressionAlgorithm for every other tag.
C12_TagClassification ==
    sb_pc = "classified" =>
        /\ LittleEndianRead(sb_buf, 0, 8) = Hash(SubSeq(sb_buf, 9, SECTOR_SIZE))
        /\ IF TagAtHand = 0
              THEN sb_out.ok /\ sb_out.block = [sb_in EXCEPT !.compression_algorithm = "Identity"]
           ELSE IF TagAtHand = 1
              THEN sb_out.ok /\ sb_out.block = [sb_in EXCEPT !.compression_algorithm = "Lz4"]
           ELSE IF TagAtHand >= 32768
              THEN ~sb_out.ok /\ sb_out.err = "UnknownCompressionAlgorithm"
           ELSE ~sb_out.ok /\ sb_out.err = "InvalidCompressionAlgorithm"

\* The first tag of the reserved range has been classified.
C12_Witness ==
    /\ sb_pc = "classified"
    /\ TagAtHand = 32768
    /\ sb_out.err = "UnknownCompressionAlgorithm"

\* The step is an operation `op` of the manager that returned an error.
Failed(op) ==
    /\ ghost'.steps # ghost.steps
    /\ hist' # <<>>
    /\ hist'[Len(hist')].op = op
    /\ ~hist'[Len(hist')].ret.ok
    /\ ~panicked'

\* C13 (no partial application on failure): a queue_alloc that fails, with
\* OutOfClusters or with a disk error, leaves State (freelist, freelist_head,
\* last_cluster, last_cluster_data) and the pipeline as they were before the
\* call, and so does a queue_freelist_pop that fails.
C13_NoPartialApplication ==
    [][(Failed("alloc") \/ Failed("pop")) =>
           /\ manager'.state = manager.state
           /\ manager'.disk.pipeline = manager.disk.pipeline]_vars

\* The step is an operation `op` of the manager that completed successfully
\* (every such operation queues a write).
Done(op) ==
    /\ ghost'.steps # ghost.steps
    /\ manager' # manager
    /\ hist'[Len(hist')].op = op
    /\ hist'[Len(hist')].ret.ok
    /\ ~panicked'

ZeroWrite(c) == [cluster |-> c, sector |-> Zeros(SECTOR_SIZE)]

\* C14 (security zeroing): with the security option, queue_freelist_push(c)
\* queues an all-zero sector write to c first, before the freelist-head write
\* and the state-block write of the same push, and when the push rotates the
\* head to c the metacluster write that follows, not the zero sector, is the
\* newest image of c; without the option no zero sector write to c is queued;
\* and the State the push leaves is the same with and without the option.
C14_SecurityZeroing ==
    [][Done("push") =>
          LET e == hist'[Len(hist')]
              c == e.arg
              q == e.queued
              on == queue_freelist_push(manager, c, TRUE)
              off == queue_freelist_push(manager, c, FALSE)
          IN  /\ security =>
                    /\ Len(q) >= 2
                    /\ q[1] = ZeroWrite(c)
                    /\ \A i \in 2..Len(q) :
                          /\ q[i] # ZeroWrite(c)
                          /\ q[i].cluster \in {manager'.state.state_block.freelist_head,
                                               StateBlockAddress}
                    /\ e.path = "rotate" =>
                          /\ q[2].cluster = c
                          /\ q[2].sector = FreelistHeadBuffer(<<manager.state.state_block.freelist_head>>)
                          /\ CacheRead(manager'.disk, c) = q[2].sector
                          /\ CacheRead(manager'.disk, c) # Zeros(SECTOR_SIZE)
              /\ ~security => \A i \in 1..Len(q) : q[i] # ZeroWrite(c)
              /\ on.m.state = off.m.state
              /\ on.m.state = manager'.state
              /\ on.m.disk.pipeline = manager.disk.pipeline \o <<ZeroWrite(c)>> \o Queued(off.m)]_vars

\* A push that rotated the head has completed with the security option on.
C14_Witness ==
    /\ NewestIs("push")
    /\ security
    /\ Newest.path = "rotate"
    /\ Newest.ret.ok
    /\ ~panicked

\* The writes of the sequence q addressed to cluster c.
WritesTo(q, c) == {i \in 1..Len(q) : q[i].cluster = c}

\* C15 (packing cases): let S = last_cluster_data || page.  When the
\* compressed S and the 2-byte header fit in a sector, queue_alloc pops
\* nothing, leaves freelist, freelist_head and last_cluster alone, queues
\* exactly one write, addressed to last_cluster, and sets last_cluster_data to
\* S.  Otherwise it pops exactly once, getting p, sets last_cluster to p and
\* last_cluster_data to the page, and queues after the writes of the pop
\* exactly one data write, addressed to p, and none to the previous last_cluster.
C15_PackingCases ==
    [][Done("alloc") =>
          LET e == hist'[Len(hist')]
              page == Page(e.arg)
              old == manager.state
              new == manager'.state
              S == old.last_cluster_data \o page
              fits == Len(Compress(old.state_block.compression_algorithm, S))
                          + DATA_CLUSTER_HEADER <= SECTOR_SIZE
              q == e.queued
              pop == queue_freelist_pop(manager, TRUE)
          IN  IF fits
              THEN /\ new.freelist = old.freelist
                   /\ new.state_block = old.state_block
                   /\ new.last_cluster = old.last_cluster
                   /\ new.last_cluster_data = S
                   /\ Len(q) = 1
                   /\ q[1].cluster = old.last_cluster
              ELSE /\ pop.ret.ok
                   /\ new.last_cluster = pop.ret.val
                   /\ new.last_cluster_data = page
                   /\ new.freelist = pop.m.state.freelist
                   /\ new.state_block = pop.m.state.state_block
                   /\ Len(q) = Len(Queued(pop.m)) + 1
                   /\ SubSeq(q, 1, Len(q) - 1) = Queued(pop.m)
                   /\ WritesTo(q, pop.ret.val) = {Len(q)}
                   /\ SubSeq(q[Len(q)].sector, DATA_CLUSTER_HEADER + 1, DATA_CLUSTER_HEADER + Len(page)) = page
                   /\ WritesTo(q, old.last_cluster) = {}]_vars

\* Since the last commit a page was packed into last_cluster under LZ4 and a
\* page that did not fit went to a popped cluster.
C15_Witness ==
    /\ NewestIs("alloc")
    /\ Newest.ret.ok
    /\ manager.state.state_block.compression_algorithm = "Lz4"
    /\ {"alloc_fit", "alloc_nofit"} \subseteq ghost.since
    /\ ~panicked

\* C16 (invariant I4): in every state reached by queue_alloc, commit and
\* revert, for pages of any accepted size under either compression algorithm,
\* last_cluster_data compressed under the configured algorithm occupies at
\* most SECTOR - DATA_CLUSTER_HEADER bytes, also right after a page that did
\* not fit became the data and after a queue_alloc that failed.
C16_DataFitsCluster ==
    /\ Len(Compress(manager.state.state_block.compression_algorithm,
                    manager.state.last_cluster_data)) <= SECTOR_SIZE - DATA_CLUSTER_HEADER
    /\ CompressedLength(packer.alg, packer.len) <= DISK_SECTOR_SIZE - DATA_CLUSTER_HEADER

\* Compress and CompressedLength agree on the data the manager keeps.
CompressedLengthAgrees ==
    \A alg \in CompressionAlgorithms :
        Len(Compress(alg, manager.state.last_cluster_data))
            = CompressedLength(alg, Len(manager.state.last_cluster_data))

\* C17 (invariant I2): in every state reached by pushes, pops, allocations,
\* commits and reverts from a well-formed chain the in-memory freelist holds
\* at most METACLUSTER_CAPACITY = floor((SECTOR - 8) / 8) pointers, and a push
\* onto a freelist of exactly that length does not append: it rotates the
\* head to the pushed cluster and leaves the freelist [old head], of length 1.
C17_FreelistCapacity ==
    /\ [](/\ METACLUSTER_CAPACITY = (SECTOR_SIZE - 8) \div 8
          /\ Len(manager.state.freelist) <= METACLUSTER_CAPACITY
          /\ Len(manager.committed_state.freelist) <= METACLUSTER_CAPACITY)
    /\ [][(Done("push") /\ Len(manager.state.freelist) = METACLUSTER_CAPACITY) =>
              /\ hist'[Len(hist')].path = "rotate"
              /\ manager'.state.freelist = <<manager.state.state_block.freelist_head>>
              /\ Len(manager'.state.freelist) = 1
              /\ manager'.state.state_block.freelist_head = hist'[Len(hist')].arg]_vars

\* A push onto a full freelist has completed.
C17_Witness ==
    /\ NewestIs("push")
    /\ Newest.path = "rotate"
    /\ Newest.ret.ok
    /\ ~panicked
    /\ Len(manager.state.freelist) = 1

\* C18 (freelist mirror): after every successful queue_freelist_push or
\* queue_freelist_pop the newest image (pipeline over device) of the cluster
\* freelist_head names is the metacluster encoding of the in-memory freelist:
\* pointer k in slot k at bytes 8+8k..16+8k, little-endian, the other slots
\* zero, bytes 0..8 the checksum of bytes 8..SECTOR; decoding that image gives
\* exactly the in-memory freelist.
C18_FreelistMirror ==
    ((NewestIs("push") \/ NewestIs("pop")) /\ Newest.ret.ok /\ ~panicked) =>
        LET image == CacheRead(manager.disk, manager.state.state_block.freelist_head)
            free == manager.state.freelist
        IN  /\ Len(image) = SECTOR_SIZE
            /\ \A k \in 0..(METACLUSTER_CAPACITY - 1) :
                  SubSeq(image, 8 + 8 * k + 1, 16 + 8 * k)
                      = LittleEndianBytes(IF k < Len(free) THEN free[k + 1] ELSE 0, 8)
            /\ SubSeq(image, 1, 8) = LittleEndianBytes(Hash(SubSeq(image, 9, SECTOR_SIZE)), 8)
            /\ LoadFreelist(image) = free

\* The newest operation after the step is `op`: the step is that operation,
\* or the caller's bookkeeping after it, which leaves the manager alone.
Stepped(op) ==
    /\ ghost'.steps # ghost.steps
    /\ hist' # <<>>
    /\ hist'[Len(hist')].op = op

\* C19 (snapshot frame): queue_alloc, queue_freelist_push and
\* queue_freelist_pop, successful or failing, never change committed_state;
\* commit sets committed_state to the current state and leaves state alone;
\* revert sets state to committed_state and leaves committed_state alone.
C19_SnapshotFrame ==
    [][/\ (Stepped("alloc") \/ Stepped("push") \/ Stepped("pop")) =>
              manager'.committed_state = manager.committed_state
       /\ (Stepped("commit") /\ manager' # manager) =>
              /\ manager'.committed_state = manager.state
              /\ manager'.state = manager.state
       /\ (Stepped("revert") /\ manager' # manager) =>
              /\ manager'.state = manager.committed_state
              /\ manager'.committed_state = manager.committed_state]_vars

\* A failed allocation changed the state, a commit made it the snapshot, a
\* push changed the state again and a revert has restored the snapshot.
C19_Witness ==
    /\ NewestIs("revert")
    /\ ghost.commits = 1
    /\ "push_append" \in ghost.undone
    /\ manager.committed_state # ghost.init_state
    /\ manager.state = manager.committed_state

\* C20 (data cluster header): the 2-byte header queue_alloc writes, read as a
\* little-endian 16-bit integer, has the compression flag in bit 0 (1 when the
\* page was packed and compressed, 0 when it was written raw) and the low 15
\* bits of the payload's checksum h in bits 1..15:
\* header = ((h mod 2^15) * 2 + flag) mod 2^16.
C20_DataHeader ==
    (NewestIs("alloc") /\ Newest.ret.ok /\ ~panicked) =>
        LET sector == Newest.queued[Len(Newest.queued)].sector
            header == LittleEndianRead(sector, 0, DATA_CLUSTER_HEADER)
            h == Checksum(SubSeq(sector, DATA_CLUSTER_HEADER + 1, Len(sector)))
            flag == IF Newest.path = "fit" THEN 1 ELSE 0
        IN  header = ((h % 32768) * 2 + flag) % 65536

\* The freelist head the newest state block image (pipeline over device)
\* carries.
StateBlockHead(disk) == StateBlockDecode(CacheRead(disk, StateBlockAddress)).block.freelist_head

\* C21 (state block synchronisation): from a state where the device's state
\* block carries the in-memory freelist_head, after every successful
\* queue_freelist_push, queue_freelist_pop or queue_alloc the newest state
\* block image (pipeline over device) carries the in-memory freelist_head,
\* and after every commit the state block on the device names it.
C21_StateBlockSync ==
    /\ ((NewestIs("push") \/ NewestIs("pop") \/ NewestIs("alloc"))
            /\ Newest.ret.ok /\ ~panicked) =>
          /\ StateBlockDecode(CacheRead(manager.disk, StateBlockAddress)).ok
          /\ StateBlockHead(manager.disk) = manager.state.state_block.freelist_head
    /\ NewestIs("commit") =>
          /\ StateBlockDecode(manager.disk.device[StateBlockAddress]).ok
          /\ StateBlockDecode(manager.disk.device[StateBlockAddress]).block.freelist_head
                 = manager.state.state_block.freelist_head

NoDuplicates(seq) == \A i, j \in 1..Len(seq) : i # j => seq[i] # seq[j]

C5_FreelistBalance ==
    \A n \in 1..MaxOps :
        ( /\ Len(hist) = 2 * n
          /\ \A i \in 1..n : /\ hist[i].op = "push"
                             /\ hist[n + i].op = "pop"
                             /\ hist[n + i].ret.err # "Disk" )
        => /\ \A j \in 1..n : hist[n + j].ret = Ok(hist[n + 1 - j].arg)
           /\ Len(manager.state.freelist) = Len(ghost.init_state.freelist)
           /\ manager.state.state_block.freelist_head
                  = ghost.init_state.state_block.freelist_head

\* Every operation so far was a pop that met no disk error.
PopsOnly == \A i \in 1..Len(hist) : hist[i].op = "pop" /\ hist[i].ret.err # "Disk"
\* Every operation so far was a push.
PushesOnly == \A i \in 1..Len(hist) : hist[i].op = "push"

InitHead == ghost.init_state.state_block.freelist_head

\* C6 (pops without a chain): from the freelist [3, 4, 5] whose head has no
\* chain link, the first pop returns 5, leaves [3, 4] and queues exactly one
\* write, to the head metacluster; the second returns 4; the third returns 3
\* and leaves freelist_head alone; the fourth fails with OutOfClusters.
C6_PopSequence ==
    (ghost.layout = "S3" /\ PopsOnly) =>
        /\ Len(hist) >= 1 =>
              /\ hist[1].ret = Ok(5)
              /\ Len(hist[1].queued) = 1
              /\ hist[1].queued[1].cluster = InitHead
        /\ Len(hist) = 1 => manager.state.freelist = <<3, 4>>
        /\ Len(hist) >= 2 => hist[2].ret = Ok(4)
        /\ Len(hist) >= 3 => hist[3].ret = Ok(3)
        /\ Len(hist) = 3 => manager.state.state_block.freelist_head = InitHead
        /\ Len(hist) >= 4 => hist[4].ret = Err("OutOfClusters")

\* C7 (pop across a chain link): when the head H holds only a link to 9 and
\* cluster 9 holds [7], the first pop returns H, makes 9 the head, loads [7]
\* and queues exactly one write, the state block naming 9; the next pop
\* returns 7.
C7_PopAcrossChain ==
    (ghost.layout = "S4" /\ PopsOnly) =>
        /\ Len(hist) >= 1 =>
              /\ hist[1].ret = Ok(InitHead)
              /\ Len(hist[1].queued) = 1
              /\ hist[1].queued[1].cluster = StateBlockAddress
              /\ StateBlockDecode(hist[1].queued[1].sector).ok
              /\ StateBlockDecode(hist[1].queued[1].sector).block.freelist_head = 9
        /\ Len(hist) = 1 =>
              /\ manager.state.state_block.freelist_head = 9
              /\ manager.state.freelist = <<7>>
        /\ Len(hist) >= 2 => hist[2].ret = Ok(7)

\* The pointers the newest image of cluster c holds, read as a metacluster.
ImagePointers(c) == LoadFreelist(CacheRead(manager.disk, c))

\* C8 (chain rotation): METACLUSTER_CAPACITY + 1 pushes of distinct pointers
\* onto the empty freelist with head H all complete; after the first
\* METACLUSTER_CAPACITY the image of H holds them, and after the last one
\* freelist_head is the last pushed pointer, the freelist is [H], the image
\* of the new head links to H and the image of H still holds the first
\* METACLUSTER_CAPACITY pointers.
C8_ChainRotation ==
    (ghost.layout = "empty" /\ PushesOnly /\ Len(hist) <= METACLUSTER_CAPACITY + 1) =>
        /\ ~panicked
        /\ Len(hist) = METACLUSTER_CAPACITY =>
              ImagePointers(InitHead) = [i \in 1..METACLUSTER_CAPACITY |-> hist[i].arg]
        /\ Len(hist) = METACLUSTER_CAPACITY + 1 =>
              /\ manager.state.state_block.freelist_head = Newest.arg
              /\ manager.state.freelist = <<InitHead>>
              /\ ImagePointers(Newest.arg) = <<InitHead>>
              /\ ImagePointers(InitHead) = [i \in 1..METACLUSTER_CAPACITY |-> hist[i].arg]

\* C9 (flush ordering on rotation): a push that rotates the head to c queues
\* the metacluster write to c, whose contents link to the old head, before the
\* state block write that names c; and at every point of the pipeline a state
\* block image names as head only a cluster that the formatted chain holds as
\* a metacluster or that an earlier write of the pipeline made one.
C9_FlushOrdering ==
    /\ \A n \in 1..Len(hist) :
          (hist[n].op = "push" /\ hist[n].path = "rotate" /\ hist[n].ret.ok) =>
              \E i, j \in 1..Len(hist[n].queued) :
                  /\ i < j
                  /\ hist[n].queued[i].cluster = hist[n].arg
                  /\ LoadFreelist(hist[n].queued[i].sector) = <<hist[n].head>>
                  /\ hist[n].queued[j].cluster = StateBlockAddress
                  /\ StateBlockDecode(hist[n].queued[j].sector).block.freelist_head = hist[n].arg
    /\ \A j \in 1..Len(manager.disk.pipeline) :
          manager.disk.pipeline[j].cluster = StateBlockAddress =>
              LET h == StateBlockDecode(manager.disk.pipeline[j].sector).block.freelist_head
              IN  \/ h \in ghost.formatted
                  \/ \E i \in 1..(j - 1) :
                        /\ manager.disk.pipeline[i].cluster = h
                        /\ manager.disk.pipeline[i].sector # Zeros(SECTOR_SIZE)

====
